---- MODULE Spec2Model ----
(***************************************************************************)
(* XMODEM sender and receiver of src/src/xmodem.ts as state machines.      *)
(*                                                                         *)
(* Bytes are naturals 0..255, a Buffer is a sequence of bytes, a chunk     *)
(* delivered by the transport's "data" event is a Buffer.  JavaScript      *)
(* arrays are 0-based: the JavaScript element a[j] is the TLA+ element     *)
(* a[j + 1], and a JavaScript length is the TLA+ Len.                      *)
(***************************************************************************)
EXTENDS Integers, Sequences, FiniteSets, TLC

(***************************************************************************)
(* Protocol bytes.                                                         *)
(***************************************************************************)
SOH == 1
EOT == 4
ACK == 6
NAK == 21
CAN == 24
FILLER == 26
CRC_MODE == 67

XMODEM_START_BLOCK == 1
XMODEM_CRC_ATTEMPTS == 3

(***************************************************************************)
(* Configuration statics of class Xmodem, scaled down so that the budget   *)
(* and the timers run out within a small state space.                      *)
(***************************************************************************)
XMODEM_MAX_ERRORS == 2
timeout_seconds == 1
block_size == 2

(***************************************************************************)
(* Bounds of the model.                                                    *)
(***************************************************************************)
\* longest payload handed to send()
MaxPayloadLen == 4
\* highest block number of an inbound frame fed to the receiver
MaxSeq == 2
\* most EOT chunks fed to one receive()
MaxEots == 2
\* most firings followed of an interval that never cancels itself
MaxFirings == 4
\* highest block number handed to sendBlock on its own
MaxCodecSeq == 257

Modes == {"crc", "normal"}
\* the filler byte and an ordinary byte ("A")
PayloadBytes == {FILLER, 65}

(***************************************************************************)
(* Integer helpers: JavaScript's remainder keeps the sign of the dividend, *)
(* Buffer.from([v]) stores v modulo 256.                                   *)
(***************************************************************************)
JsRem(a, b) == IF a >= 0 THEN a % b ELSE 0 - ((0 - a) % b)

\* mutant: a value outside a byte is clamped
ToUint8_Clamps(v) == IF v > 255 THEN 255 ELSE IF v < 0 THEN 0 ELSE v

ToUint8(v) == v % 256

RECURSIVE BitXor(_, _)
BitXor(a, b) ==
    IF a = 0 THEN b
    ELSE IF b = 0 THEN a
    ELSE (((a % 2) + (b % 2)) % 2) + 2 * BitXor(a \div 2, b \div 2)

(***************************************************************************)
(* crc.crc16xmodem: CRC-16/XMODEM, polynomial 0x1021, initial value 0,     *)
(* most significant bit first.                                             *)
(***************************************************************************)
CrcShift(c) ==
    IF c >= 32768 THEN BitXor((c * 2) % 65536, 4129) ELSE c * 2

RECURSIVE CrcBits(_, _)
CrcBits(c, n) == IF n = 0 THEN c ELSE CrcBits(CrcShift(c), n - 1)

\* the exclusive or of two bytes, and of two 16-bit values byte by byte
XorTable == [a \in 0..255 |-> [b \in 0..255 |-> BitXor(a, b)]]

Xor16(a, b) ==
    XorTable[a \div 256][b \div 256] * 256 + XorTable[a % 256][b % 256]

\* the eight shifts that one byte in the high half of the register causes
CrcTable == [b \in 0..255 |-> CrcBits(b * 256, 8)]

RECURSIVE CrcFrom(_, _, _)
CrcFrom(c, buf, i) ==
    IF i > Len(buf) THEN c
    ELSE CrcFrom(Xor16((c % 256) * 256,
                       CrcTable[XorTable[c \div 256][buf[i]]]),
                 buf, i + 1)

crc16xmodem(buf) == CrcFrom(0, buf, 1)

(***************************************************************************)
(* Number.toString(16) as the sequence of its hex digits, and              *)
(* Buffer.from(string, "hex"), which reads the digits two by two.          *)
(***************************************************************************)
RECURSIVE ToHexString(_)
ToHexString(n) ==
    IF n < 16 THEN <<n>> ELSE Append(ToHexString(n \div 16), n % 16)

BufferFromHex(s) ==
    [i \in 1..(Len(s) \div 2) |-> 16 * s[2 * i - 1] + s[2 * i]]

RECURSIVE SumBytes(_, _)
SumBytes(buf, i) == IF i > Len(buf) THEN 0 ELSE buf[i] + SumBytes(buf, i + 1)

(***************************************************************************)
(* sendBlock: the frame handed to socket.write.                            *)
(***************************************************************************)
\* mutant: the hex string is not padded to four digits
CrcTrailer_Unpadded(blockData) ==
    LET s0 == ToHexString(crc16xmodem(blockData))
        s1 == IF Len(s0) % 2 = 1 THEN <<0>> \o s0 ELSE s0
    IN  BufferFromHex(s1)

CrcTrailer(blockData) ==
    LET s0 == ToHexString(crc16xmodem(blockData))
        s1 == IF Len(s0) % 2 = 1 THEN <<0>> \o s0 ELSE s0
        s2 == IF Len(s1) = 2 THEN <<0, 0>> \o s1 ELSE s1
    IN  BufferFromHex(s2)

ChecksumTrailer(blockData) ==
    LET s0 == ToHexString(SumBytes(blockData, 1) % 256)
        s1 == IF Len(s0) % 2 # 0 THEN <<0>> \o s0 ELSE s0
    IN  BufferFromHex(s1)

sendBlock(blockNr, blockData, mode) ==
    <<SOH, ToUint8(blockNr), ToUint8(255 - blockNr)>> \o blockData
        \o (IF mode = "crc" THEN CrcTrailer(blockData)
            ELSE ChecksumTrailer(blockData))

(***************************************************************************)
(* send(): the payload is cut into blocks of block_size bytes, the last    *)
(* one padded with FILLER; index 0 of packagedBuffer holds the empty       *)
(* string.                                                                 *)
(***************************************************************************)
RECURSIVE Chunks(_)
Chunks(buf) ==
    IF Len(buf) = 0 THEN <<>>
    ELSE <<[i \in 1..block_size |-> IF i <= Len(buf) THEN buf[i] ELSE FILLER]>>
             \o Chunks(SubSeq(buf, block_size + 1, Len(buf)))

Package(buf) == << <<>> >> \o Chunks(buf)

RECURSIVE SeqsUpTo(_, _)
SeqsUpTo(S, n) ==
    IF n = 0 THEN {<<>>}
    ELSE LET shorter == SeqsUpTo(S, n - 1)
         IN  shorter \cup {Append(s, b) : s \in shorter, b \in S}

\* the payloads handed to send()
Payloads == SeqsUpTo(PayloadBytes, MaxPayloadLen)

(***************************************************************************)
(* State.  The sender's locals of send() carry the prefix s where the      *)
(* receiver has a local of the same name.                                  *)
(***************************************************************************)
VARIABLES
    dataBuffer,        \* the payload handed to send()
    sPackagedBuffer,   \* send(): packagedBuffer
    sBlockNumber,      \* send(): blockNumber
    sent_eof,          \* send(): sent_eof
    sMode,             \* Xmodem.XMODEM_OP_MODE in the sender's process
    sListening,        \* sendData is attached to the socket's "data" event
    sData,             \* the chunk of the last "data" event at the sender
    sWrote,            \* what that event made the sender write, in order
    sEmitted,          \* the notifications that event made the sender emit
    sLastTx,           \* the sender's most recent write, <<>> before the first
    sHighest,          \* the highest block number written so far
    sStartByte,        \* the first byte that took a start branch, 0 before
    sEotWritten,       \* the sender has written EOT at least once
    sStops,            \* how many times `stop` was emitted
    rPackagedBuffer,   \* receive(): packagedBuffer
    rBlockNumber,      \* receive(): blockNumber
    transfer_initiated,     \* receive(): transfer_initiated
    tryCounter,             \* receive(): tryCounter
    rMode,             \* Xmodem.XMODEM_OP_MODE in the receiver's process
    receive_interval_timer, \* the module's timer handle: "crc", "nak" or "none"
    crcTimer,          \* the CRC probe interval: [active, x]
    nakTimer,          \* the NAK probe interval: [active, x]
    rListening,        \* receiveData is attached to the socket's "data" event
    rSocketOpen,       \* the receiver's socket was not destroyed or closed
    openPending,       \* file streams of writeFile that have not opened yet
    writeFileCalls,    \* how many times writeFile was called
    file,              \* the bytes last written to the file, <<-1>> before
    rThrew,            \* receiveData threw a TypeError
    rData,             \* the chunk of the last "data" event at the receiver
    rWrote,            \* what the last receiver step wrote, in order
    rAcks,             \* how many ACKs the receiver has written
    nEots,             \* how many EOT chunks receiveData has handled
    corruptRun,        \* corrupt blocks fed in a row; stays at the budget + 1
    crc_tick,          \* receive(): crc_tick, Xmodem.XMODEM_CRC_ATTEMPTS then
    rConfigured,       \* Xmodem.XMODEM_OP_MODE when receive() was called
    rCrcProbes,        \* how many CRC_MODE bytes the receiver has written
    rNakProbes,        \* how many NAK bytes its timer callbacks have written
    codecCall,         \* the arguments of a sendBlock call made on its own
    codecFrame,        \* the frame that call wrote, <<>> before
    codecResult,       \* what receiveBlock made of that frame
    s2r,               \* chunks written by the sender, not yet delivered
    r2s                \* chunks written by the receiver, not yet delivered

senderVars ==
    <<dataBuffer, sPackagedBuffer, sBlockNumber, sent_eof, sMode, sListening,
      sData, sWrote, sEmitted, sLastTx, sHighest, sStartByte, sEotWritten,
      sStops>>

receiverVars ==
    <<rPackagedBuffer, rBlockNumber, transfer_initiated, tryCounter, rMode,
      receive_interval_timer, crcTimer, nakTimer, rListening, rSocketOpen,
      openPending, writeFileCalls, file, rThrew, rData, rWrote, rAcks, nEots,
      corruptRun, crc_tick, rConfigured, rCrcProbes, rNakProbes>>

channelVars == <<s2r, r2s>>

codecVars == <<codecCall, codecFrame, codecResult>>

vars == <<senderVars, receiverVars, channelVars, codecVars>>

(***************************************************************************)
(* The sender.                                                             *)
(***************************************************************************)
SenderInit ==
    /\ dataBuffer \in Payloads
    /\ sPackagedBuffer = Package(dataBuffer)
    /\ sBlockNumber = XMODEM_START_BLOCK
    /\ sent_eof = FALSE
    /\ sMode \in Modes
    /\ sListening = TRUE
    /\ sData = <<>>
    /\ sWrote = <<>>
    /\ sEmitted = <<"ready">>
    /\ sLastTx = <<>>
    /\ sHighest = 0
    /\ sStartByte = 0
    /\ sEotWritten = FALSE
    /\ sStops = 0

\* sendBlock on the block at the cursor, then blockNumber++
SendAtCursor(blockNr, mode, events) ==
    /\ sWrote' = <<sendBlock(blockNr, sPackagedBuffer[blockNr + 1], mode)>>
    /\ sEmitted' = events
    /\ sBlockNumber' = blockNr + 1

\* mutant: the start byte does not set the mode, the configured one is kept
StartBranch_KeepsConfigured(mode) ==
    /\ UNCHANGED sMode
    /\ IF Len(sPackagedBuffer) > sBlockNumber
       THEN SendAtCursor(sBlockNumber, sMode, <<"start", "status">>)
       ELSE /\ sWrote' = <<>>
            /\ sEmitted' = <<>>
            /\ UNCHANGED sBlockNumber
    /\ UNCHANGED <<sent_eof, sListening>>

\* the two start branches: CRC_MODE gives "crc", NAK gives "normal"
StartBranch(mode) ==
    /\ sMode' = mode
    /\ IF Len(sPackagedBuffer) > sBlockNumber
       THEN SendAtCursor(sBlockNumber, mode, <<"start", "status">>)
       ELSE /\ sWrote' = <<>>
            /\ sEmitted' = <<>>
            /\ UNCHANGED sBlockNumber
    /\ UNCHANGED <<sent_eof, sListening>>

\* mutant: off by one, EOT goes out while the last block is still unsent
AckBranch_EotEarly ==
    /\ IF Len(sPackagedBuffer) > sBlockNumber + 1
       THEN /\ SendAtCursor(sBlockNumber, sMode, <<"status", "status">>)
            /\ UNCHANGED <<sent_eof, sListening>>
       ELSE IF sent_eof = FALSE
            THEN /\ sent_eof' = TRUE
                 /\ sWrote' = <<<<EOT>>>>
                 /\ sEmitted' = <<"status", "status">>
                 /\ UNCHANGED <<sBlockNumber, sListening>>
            ELSE /\ sEmitted' = <<"status", "stop">>
                 /\ sListening' = FALSE
                 /\ sWrote' = <<>>
                 /\ UNCHANGED <<sBlockNumber, sent_eof>>
    /\ UNCHANGED sMode

\* mutant: `stop` is emitted but the handler stays attached
AckBranch_StaysAttached ==
    /\ IF Len(sPackagedBuffer) > sBlockNumber
       THEN /\ SendAtCursor(sBlockNumber, sMode, <<"status", "status">>)
            /\ UNCHANGED <<sent_eof, sListening>>
       ELSE IF sent_eof = FALSE
            THEN /\ sent_eof' = TRUE
                 /\ sWrote' = <<<<EOT>>>>
                 /\ sEmitted' = <<"status", "status">>
                 /\ UNCHANGED <<sBlockNumber, sListening>>
            ELSE /\ sEmitted' = <<"status", "stop">>
                 /\ sWrote' = <<>>
                 /\ UNCHANGED <<sBlockNumber, sent_eof, sListening>>
    /\ UNCHANGED sMode

AckBranch ==
    /\ IF Len(sPackagedBuffer) > sBlockNumber
       THEN /\ SendAtCursor(sBlockNumber, sMode, <<"status", "status">>)
            /\ UNCHANGED <<sent_eof, sListening>>
       ELSE IF Len(sPackagedBuffer) = sBlockNumber
       THEN IF sent_eof = FALSE
            THEN /\ sent_eof' = TRUE
                 /\ sWrote' = <<<<EOT>>>>
                 /\ sEmitted' = <<"status", "status">>
                 /\ UNCHANGED <<sBlockNumber, sListening>>
            ELSE /\ sEmitted' = <<"status", "stop">>
                 /\ sListening' = FALSE
                 /\ sWrote' = <<>>
                 /\ UNCHANGED <<sBlockNumber, sent_eof>>
       ELSE /\ sWrote' = <<>>
            /\ sEmitted' = <<"status">>
            /\ UNCHANGED <<sBlockNumber, sent_eof, sListening>>
    /\ UNCHANGED sMode

\* mutant: the cursor is not moved back, the next block goes out instead
NakBranch_NoRewind ==
    /\ IF sBlockNumber = Len(sPackagedBuffer) /\ sent_eof
       THEN /\ sWrote' = <<<<EOT>>>>
            /\ sEmitted' = <<"status">>
            /\ UNCHANGED sBlockNumber
       ELSE IF Len(sPackagedBuffer) > sBlockNumber
       THEN SendAtCursor(sBlockNumber, sMode, <<"status", "status">>)
       ELSE /\ sWrote' = <<>>
            /\ sEmitted' = <<"status">>
            /\ UNCHANGED sBlockNumber
    /\ UNCHANGED <<sent_eof, sListening, sMode>>

NakBranch ==
    /\ IF sBlockNumber = Len(sPackagedBuffer) /\ sent_eof
       THEN /\ sWrote' = <<<<EOT>>>>
            /\ sEmitted' = <<"status">>
            /\ UNCHANGED sBlockNumber
       ELSE IF Len(sPackagedBuffer) > sBlockNumber - 1
       THEN SendAtCursor(sBlockNumber - 1, sMode, <<"status", "status">>)
       ELSE /\ sWrote' = <<>>
            /\ sEmitted' = <<"status">>
            /\ sBlockNumber' = sBlockNumber - 1
    /\ UNCHANGED <<sent_eof, sListening, sMode>>

\* mutant: an unexpected byte ends the transfer
UnexpectedBranch_Aborts ==
    /\ sWrote' = <<>>
    /\ sEmitted' = <<"stop">>
    /\ sListening' = FALSE
    /\ UNCHANGED <<sBlockNumber, sent_eof, sMode>>

UnexpectedBranch ==
    /\ sWrote' = <<>>
    /\ sEmitted' = <<>>
    /\ UNCHANGED <<sBlockNumber, sent_eof, sListening, sMode>>

\* the "data" handler of send()
sendData(data) ==
    IF data[1] = CRC_MODE /\ sBlockNumber = XMODEM_START_BLOCK
    THEN StartBranch("crc")
    ELSE IF data[1] = NAK /\ sBlockNumber = XMODEM_START_BLOCK
    THEN StartBranch("normal")
    ELSE IF data[1] = ACK /\ sBlockNumber > XMODEM_START_BLOCK
    THEN AckBranch
    ELSE IF data[1] = NAK /\ sBlockNumber > XMODEM_START_BLOCK
    THEN NakBranch
    ELSE UnexpectedBranch

\* what an observer of the socket and of the emitter records
IsBlockFrame(w) == Len(w) > 1 /\ w[1] = SOH

Count(events, e) == Cardinality({i \in 1..Len(events) : events[i] = e})

SenderObserved(data) ==
    /\ sData' = data
    /\ sLastTx' = IF sWrote' # <<>> THEN sWrote'[Len(sWrote')] ELSE sLastTx
    /\ sHighest' = IF sWrote' # <<>> /\ IsBlockFrame(sWrote'[1])
                      /\ sWrote'[1][2] > sHighest
                   THEN sWrote'[1][2] ELSE sHighest
    /\ sStartByte' = IF sStartByte = 0 /\ sBlockNumber = XMODEM_START_BLOCK
                        /\ data[1] \in {CRC_MODE, NAK}
                     THEN data[1] ELSE sStartByte
    /\ sEotWritten' = (sEotWritten \/ \E i \in 1..Len(sWrote') : sWrote'[i] = <<EOT>>)
    /\ sStops' = sStops + Count(sEmitted', "stop")

\* a chunk arrives at the sender's socket: the listeners of "data" run
SenderData(data) ==
    /\ IF sListening
       THEN sendData(data)
       ELSE /\ sWrote' = <<>>
            /\ sEmitted' = <<>>
            /\ UNCHANGED <<sBlockNumber, sent_eof, sListening, sMode>>
    /\ SenderObserved(data)
    /\ UNCHANGED <<dataBuffer, sPackagedBuffer>>


(***************************************************************************)
(* The receiver.                                                           *)
(***************************************************************************)
nak_tick == XMODEM_MAX_ERRORS * timeout_seconds * 3

\* the values Xmodem.XMODEM_CRC_ATTEMPTS is configured with
CrcAttempts == 1..XMODEM_CRC_ATTEMPTS

NoFile == <<-1>>

\* receive() up to socket.on("data", receiveData): the first probe is
\* written and its interval started
ReceiverInit ==
    /\ rPackagedBuffer = << <<>> >>
    /\ rBlockNumber = XMODEM_START_BLOCK
    /\ transfer_initiated = FALSE
    /\ tryCounter = 0
    /\ rMode \in Modes
    /\ receive_interval_timer = IF rMode = "crc" THEN "crc" ELSE "nak"
    /\ crcTimer = [active |-> rMode = "crc", x |-> 0]
    /\ nakTimer = [active |-> rMode # "crc", x |-> 0]
    /\ rWrote = IF rMode = "crc" THEN <<<<CRC_MODE>>>> ELSE <<>>
    /\ rListening = TRUE
    /\ rSocketOpen = TRUE
    /\ openPending = 0
    /\ writeFileCalls = 0
    /\ file = NoFile
    /\ rThrew = FALSE
    /\ rData = <<>>
    /\ rAcks = 0
    /\ nEots = 0
    /\ corruptRun = 0
    /\ crc_tick \in CrcAttempts
    /\ rConfigured = rMode
    /\ rCrcProbes = IF rMode = "crc" THEN 1 ELSE 0
    /\ rNakProbes = 0

\* clearInterval(handle) on the two intervals
Cleared(timer, name, handle) ==
    IF handle = name THEN [timer EXCEPT !.active = FALSE] ELSE timer

\* mutant: a frame that is out of sync is answered with NAK
receiveBlock_NakOnSync(blockNr, blockData, bsize, mode) ==
    LET checksum_length == IF mode = "crc" THEN 2 ELSE 1
        current_block == SubSeq(blockData, 4, Len(blockData) - checksum_length)
        reject == [wrote |-> <<<<NAK>>>>, accepted |-> FALSE, block |-> <<>>]
    IN  IF blockData[1] # SOH
        THEN [wrote |-> <<>>, accepted |-> FALSE, block |-> <<>>]
        ELSE IF ~(Len(blockData) >= 3 /\ blockData[2] + blockData[3] = 255)
        THEN reject
        ELSE IF blockData[2] # JsRem(blockNr, 256)
        THEN reject
        ELSE IF Len(current_block) = bsize
        THEN [wrote |-> <<<<ACK>>>>, accepted |-> TRUE, block |-> current_block]
        ELSE reject

\* receiveBlock: what it writes, and whether it calls back with the payload.
\* parseInt of a missing byte is NaN, and NaN + n === 0xff is false.
receiveBlock(blockNr, blockData, bsize, mode) ==
    LET checksum_length == IF mode = "crc" THEN 2 ELSE 1
        current_block == SubSeq(blockData, 4, Len(blockData) - checksum_length)
        silent == [wrote |-> <<>>, accepted |-> FALSE, block |-> <<>>]
        reject == [wrote |-> <<<<NAK>>>>, accepted |-> FALSE, block |-> <<>>]
    IN  IF blockData[1] # SOH
        THEN silent
        ELSE IF ~(Len(blockData) >= 3 /\ blockData[2] + blockData[3] = 255)
        THEN reject
        ELSE IF blockData[2] # JsRem(blockNr, 256)
        THEN silent
        ELSE IF Len(current_block) = bsize
        THEN [wrote |-> <<<<ACK>>>>, accepted |-> TRUE, block |-> current_block]
        ELSE reject

\* the loop of the EOT branch: scan from the end, cut behind the first byte
\* that is not FILLER; a chunk without such a byte is left as it is
RECURSIVE TrimFrom(_, _)
TrimFrom(chunk, i) ==
    IF i < 1 THEN chunk
    ELSE IF chunk[i] = FILLER THEN TrimFrom(chunk, i - 1)
    ELSE SubSeq(chunk, 1, i)

\* mutant: the final chunk keeps its padding
TrimFiller_KeepsPadding(chunk) == chunk

TrimFiller(chunk) == TrimFrom(chunk, Len(chunk))

SohBranch(data) ==
    LET handle == IF transfer_initiated THEN "none" ELSE receive_interval_timer
        r == receiveBlock(rBlockNumber, data, block_size, rMode)
    IN  /\ transfer_initiated' = TRUE
        /\ receive_interval_timer' =
              IF transfer_initiated THEN receive_interval_timer ELSE "none"
        /\ crcTimer' = Cleared(crcTimer, "crc", handle)
        /\ nakTimer' = Cleared(nakTimer, "nak", handle)
        /\ rWrote' = r.wrote
        /\ IF r.accepted
           THEN /\ rPackagedBuffer' = Append(rPackagedBuffer, r.block)
                /\ tryCounter' = 0
                /\ rBlockNumber' = rBlockNumber + 1
           ELSE /\ tryCounter' = tryCounter + 1
                /\ UNCHANGED <<rPackagedBuffer, rBlockNumber>>
        /\ UNCHANGED <<openPending, writeFileCalls, rThrew>>

\* packagedBuffer[blockNumber] is undefined outside the array, and reading
\* its length throws before writeFile is reached
EotBranch ==
    LET bn == rBlockNumber - 1
    IN  /\ rWrote' = <<<<ACK>>>>
        /\ rBlockNumber' = bn
        /\ tryCounter' = tryCounter + 1
        /\ IF bn < 0 \/ bn >= Len(rPackagedBuffer)
           THEN /\ rThrew' = TRUE
                /\ UNCHANGED <<rPackagedBuffer, openPending, writeFileCalls>>
           ELSE /\ rPackagedBuffer' =
                      [rPackagedBuffer EXCEPT ![bn + 1] = TrimFiller(@)]
                /\ writeFileCalls' = writeFileCalls + 1
                /\ openPending' = openPending + 1
                /\ UNCHANGED rThrew
        /\ UNCHANGED <<transfer_initiated, receive_interval_timer, crcTimer,
                       nakTimer>>

IgnoredBranch ==
    /\ tryCounter' = tryCounter + 1
    /\ rWrote' = <<>>
    /\ UNCHANGED <<rPackagedBuffer, rBlockNumber, transfer_initiated,
                   receive_interval_timer, crcTimer, nakTimer, openPending,
                   writeFileCalls, rThrew>>

\* the "data" handler of receive()
receiveData(data) ==
    IF data[1] = NAK /\ rBlockNumber = XMODEM_START_BLOCK
    THEN IgnoredBranch
    ELSE IF data[1] = SOH /\ tryCounter + 1 <= XMODEM_MAX_ERRORS
    THEN SohBranch(data)
    ELSE IF data[1] = EOT
    THEN EotBranch
    ELSE IgnoredBranch

(***************************************************************************)
(* The chunks fed to a receiver that is driven directly: the frames        *)
(* sendBlock builds, damaged copies of them, and the control bytes.        *)
(***************************************************************************)
\* the block of a one-byte payload: "A" and padding
RecvBlocks ==
    {[i \in 1..block_size |-> IF i = 1 THEN 65 ELSE FILLER]}

GoodFrames ==
    {sendBlock(n, b, m) : n \in 1..MaxSeq, b \in RecvBlocks, m \in Modes}

BadComplement(f) == [f EXCEPT ![3] = (f[3] + 1) % 256]

BadTrailer(f) == [f EXCEPT ![Len(f)] = (f[Len(f)] + 1) % 256]

\* corrupt blocks: block 1 with a wrong complement, and a lone SOH
CorruptFrames ==
    {BadComplement(f) : f \in {g \in GoodFrames : g[2] = 1}} \cup {<<SOH>>}

RecvChunks ==
    GoodFrames \cup CorruptFrames
        \cup {BadTrailer(f) : f \in GoodFrames}
        \cup {<<EOT>>, <<NAK>>, <<ACK>>, <<CAN>>, <<CRC_MODE>>}

ReceiverObserved(data) ==
    /\ rData' = data
    /\ rAcks' = rAcks + Count(rWrote', <<ACK>>)
    /\ nEots' = IF rListening /\ data # <<>> /\ data[1] = EOT
                THEN nEots + 1 ELSE nEots
    /\ corruptRun' = IF data = <<>> THEN corruptRun
                     ELSE IF data \in CorruptFrames
                          THEN IF corruptRun > XMODEM_MAX_ERRORS
                               THEN corruptRun ELSE corruptRun + 1
                          ELSE 0
    /\ rCrcProbes' = rCrcProbes + Count(rWrote', <<CRC_MODE>>)
    /\ rNakProbes' = IF data = <<>> THEN rNakProbes + Count(rWrote', <<NAK>>)
                     ELSE rNakProbes
    /\ UNCHANGED <<crc_tick, rConfigured>>

\* a chunk arrives at the receiver's socket: the listeners of "data" run
ReceiverData(data) ==
    /\ IF rListening
       THEN receiveData(data)
       ELSE /\ rWrote' = <<>>
            /\ UNCHANGED <<rPackagedBuffer, rBlockNumber, transfer_initiated,
                           tryCounter, receive_interval_timer, crcTimer,
                           nakTimer, openPending, writeFileCalls, rThrew>>
    /\ ReceiverObserved(data)
    /\ UNCHANGED <<rMode, rListening, rSocketOpen, file>>

\* setIntervalX: the interval counts its firing, cancels itself at
\* `repetitions` and then runs the callback
Ticked(timer, repetitions) ==
    [active |-> timer.x + 1 # repetitions, x |-> timer.x + 1]

\* the CRC probe interval fires
CrcTimerFire ==
    /\ crcTimer.active
    /\ crcTimer.x < MaxFirings
    /\ LET crc1 == Ticked(crcTimer, crc_tick - 1)
           h1 == IF crc1.active THEN receive_interval_timer ELSE "none"
           h2 == IF transfer_initiated = FALSE THEN h1 ELSE "none"
           fallback == h2 = "none" /\ transfer_initiated = FALSE
       IN  /\ rWrote' = IF transfer_initiated = FALSE
                        THEN <<<<CRC_MODE>>>> ELSE <<>>
           /\ crcTimer' = IF transfer_initiated = FALSE THEN crc1
                          ELSE Cleared(crc1, "crc", h1)
           /\ nakTimer' = IF fallback THEN [active |-> TRUE, x |-> 0]
                          ELSE IF transfer_initiated = FALSE THEN nakTimer
                          ELSE Cleared(nakTimer, "nak", h1)
           /\ receive_interval_timer' = IF fallback THEN "nak" ELSE h2
    /\ ReceiverObserved(<<>>)
    /\ UNCHANGED <<rPackagedBuffer, rBlockNumber, transfer_initiated,
                   tryCounter, rMode, rListening, rSocketOpen, openPending,
                   writeFileCalls, file, rThrew>>

\* the NAK probe interval fires
NakTimerFire ==
    /\ nakTimer.active
    /\ nakTimer' = Ticked(nakTimer, nak_tick)
    /\ receive_interval_timer' =
          IF nakTimer'.active THEN receive_interval_timer ELSE "none"
    /\ rWrote' = <<<<NAK>>>>
    /\ rMode' = "normal"
    /\ ReceiverObserved(<<>>)
    /\ UNCHANGED <<rPackagedBuffer, rBlockNumber, transfer_initiated,
                   tryCounter, crcTimer, rListening, rSocketOpen, openPending,
                   writeFileCalls, file, rThrew>>

RECURSIVE Flatten(_)
Flatten(chunks) ==
    IF chunks = <<>> THEN <<>> ELSE Head(chunks) \o Flatten(Tail(chunks))

\* writeFile's stream opens: the chunks are written as they are now, then the
\* callback tears the socket down and detaches receiveData
FileStreamOpen ==
    /\ openPending > 0
    /\ openPending' = openPending - 1
    /\ file' = Flatten(rPackagedBuffer)
    /\ rSocketOpen' = FALSE
    /\ rListening' = FALSE
    /\ rWrote' = <<>>
    /\ ReceiverObserved(<<>>)
    /\ UNCHANGED <<rPackagedBuffer, rBlockNumber, transfer_initiated,
                   tryCounter, rMode, receive_interval_timer, crcTimer,
                   nakTimer, writeFileCalls, rThrew>>

\* a destroyed or closed socket delivers no more chunks
FeedReceiver ==
    /\ rSocketOpen
    /\ tryCounter <= XMODEM_MAX_ERRORS + 1
    /\ \E data \in RecvChunks :
          /\ data[1] = EOT => nEots < MaxEots
          /\ ReceiverData(data)

Unconnected == s2r = <<>> /\ r2s = <<>>

NoCall == [blockNr |-> 0, blockData |-> <<>>, mode |-> "crc"]

NoResult == [expected |-> 0, wrote |-> <<>>, accepted |-> FALSE, block |-> <<>>]

\* no sendBlock call is made on its own
CodecIdle ==
    /\ codecCall = NoCall
    /\ codecFrame = <<>>
    /\ codecResult = NoResult

\* a send() that is never started stands by
SenderIdle == SenderInit /\ dataBuffer = <<>> /\ sMode = "crc"

RecvInit ==
    /\ SenderIdle
    /\ ReceiverInit
    /\ crc_tick = XMODEM_CRC_ATTEMPTS
    /\ Unconnected
    /\ CodecIdle

RecvFeed == FeedReceiver /\ UNCHANGED <<senderVars, channelVars, codecVars>>

RecvCrcTimer == CrcTimerFire /\ UNCHANGED <<senderVars, channelVars, codecVars>>

RecvNakTimer == NakTimerFire /\ UNCHANGED <<senderVars, channelVars, codecVars>>

RecvFileOpen == FileStreamOpen /\ UNCHANGED <<senderVars, channelVars, codecVars>>

RecvNext == RecvFeed \/ RecvCrcTimer \/ RecvNakTimer \/ RecvFileOpen

SpecRecv == RecvInit /\ [][RecvNext]_vars

\* the same receiver under every configured Xmodem.XMODEM_CRC_ATTEMPTS
ProbeInit ==
    /\ SenderIdle
    /\ ReceiverInit
    /\ Unconnected
    /\ CodecIdle

SpecProbe == ProbeInit /\ [][RecvNext]_vars

\* the chunks fed to a sender that is driven directly
SenderChunks ==
    {<<CRC_MODE>>, <<NAK>>, <<ACK>>, <<SOH>>, <<EOT>>, <<CAN>>, <<0>>}

FeedSender == \E data \in SenderChunks : SenderData(data)

SendInit ==
    /\ SenderInit
    /\ ReceiverInit /\ rMode = "crc" /\ crc_tick = XMODEM_CRC_ATTEMPTS
    /\ Unconnected
    /\ CodecIdle

SendNext == FeedSender /\ UNCHANGED <<receiverVars, channelVars, codecVars>>

SpecSend == SendInit /\ [][SendNext]_vars

(***************************************************************************)
(* sendBlock and receiveBlock on their own: one call of sendBlock, then     *)
(* receiveBlock on the frame it wrote, expecting that block number or the  *)
(* next one.                                                               *)
(***************************************************************************)
\* bytes whose pairs give a CRC of 0 (0, 0), of one hex digit (42, 195), of
\* two (0, 137) and of three (0, 17)
CodecBytes == {0, 17, 42, 137, 195}

CodecPayloads == [1..block_size -> CodecBytes]

CodecInit ==
    /\ codecCall \in [blockNr : 1..MaxCodecSeq, blockData : CodecPayloads,
                       mode : Modes]
    /\ codecFrame = <<>>
    /\ codecResult = NoResult

CodecSend ==
    /\ codecFrame = <<>>
    /\ codecFrame' =
          sendBlock(codecCall.blockNr, codecCall.blockData, codecCall.mode)
    /\ UNCHANGED <<codecCall, codecResult>>

CodecReceive ==
    /\ codecFrame # <<>>
    /\ codecResult = NoResult
    /\ \E expected \in {codecCall.blockNr, codecCall.blockNr + 1} :
          LET r == receiveBlock(expected, codecFrame, block_size,
                                codecCall.mode)
          IN  codecResult' = [expected |-> expected, wrote |-> r.wrote,
                              accepted |-> r.accepted, block |-> r.block]
    /\ UNCHANGED <<codecCall, codecFrame>>

CodecSpecInit ==
    /\ SenderIdle
    /\ ReceiverInit /\ rMode = "crc" /\ crc_tick = XMODEM_CRC_ATTEMPTS
    /\ Unconnected
    /\ CodecInit

CodecSendStep ==
    CodecSend /\ UNCHANGED <<senderVars, receiverVars, channelVars>>

CodecReceiveStep ==
    CodecReceive /\ UNCHANGED <<senderVars, receiverVars, channelVars>>

CodecNext == CodecSendStep \/ CodecReceiveStep

SpecCodec == CodecSpecInit /\ [][CodecNext]_vars

(***************************************************************************)
(* One send() and one receive() in two processes, joined by a channel that *)
(* loses, damages and reorders nothing and hands every write over as one   *)
(* chunk.  A write to a socket that was torn down goes nowhere.            *)
(***************************************************************************)
E2EInit ==
    /\ SenderInit
    /\ ReceiverInit
    /\ crc_tick = XMODEM_CRC_ATTEMPTS
    /\ s2r = <<>>
    /\ r2s = rWrote
    /\ CodecIdle

ReceiverWrites == r2s' = IF rSocketOpen THEN r2s \o rWrote' ELSE r2s

E2EToSender ==
    /\ r2s # <<>>
    /\ SenderData(Head(r2s))
    /\ r2s' = Tail(r2s)
    /\ s2r' = s2r \o sWrote'
    /\ UNCHANGED <<receiverVars, codecVars>>

E2EToReceiver ==
    /\ s2r # <<>>
    /\ rSocketOpen
    /\ ReceiverData(Head(s2r))
    /\ s2r' = Tail(s2r)
    /\ r2s' = r2s \o rWrote'
    /\ UNCHANGED <<senderVars, codecVars>>

E2ECrcTimer ==
    CrcTimerFire /\ ReceiverWrites /\ UNCHANGED <<senderVars, s2r, codecVars>>

E2ENakTimer ==
    NakTimerFire /\ ReceiverWrites /\ UNCHANGED <<senderVars, s2r, codecVars>>

E2EFileOpen ==
    FileStreamOpen /\ UNCHANGED <<senderVars, channelVars, codecVars>>

E2ENext ==
    E2EToSender \/ E2EToReceiver \/ E2ECrcTimer \/ E2ENakTimer \/ E2EFileOpen

SpecE2E == E2EInit /\ [][E2ENext]_vars

\* the event loop runs every pending delivery, timer firing and stream open
E2EFairness ==
    /\ WF_vars(E2EToSender)
    /\ WF_vars(E2EToReceiver)
    /\ WF_vars(E2ECrcTimer)
    /\ WF_vars(E2ENakTimer)
    /\ WF_vars(E2EFileOpen)

SpecE2ELive == SpecE2E /\ E2EFairness

(***************************************************************************)
(* Properties of a whole transfer, checked under SpecE2E.                  *)
(***************************************************************************)
\* C1 as stated: for every non-empty payload, whatever its last bytes, the
\* bytes the storage writer gets from the receiver after EOT are exactly the
\* payload.
C1_Original ==
    (dataBuffer # <<>> /\ file # NoFile) => file = dataBuffer

\* C1 amended: for every non-empty payload whose last byte is not the filler
\* 0x1A, the bytes the storage writer gets after EOT are exactly the payload.
C1_EndToEnd ==
    (dataBuffer # <<>> /\ dataBuffer[Len(dataBuffer)] # FILLER /\ file # NoFile)
        => file = dataBuffer

\* C1 witness: a payload of two blocks, the second one padded, with a filler
\* byte inside, was written out in full and the sender has stopped
C1_Witness ==
    /\ Len(dataBuffer) = block_size + 1
    /\ dataBuffer[1] = FILLER
    /\ dataBuffer[Len(dataBuffer)] # FILLER
    /\ file = dataBuffer
    /\ sStops = 1

(***************************************************************************)
(* Properties of the sender, checked under SpecSend.                       *)
(***************************************************************************)
NumBlocks == Len(sPackagedBuffer) - 1

WroteBlock(k) ==
    \E i \in 1..Len(sWrote) : IsBlockFrame(sWrote[i]) /\ sWrote[i][2] = k

WroteEot == \E i \in 1..Len(sWrote) : sWrote[i] = <<EOT>>

TrailerWidth(mode) == IF mode = "crc" THEN 2 ELSE 1

ModeOfStart(byte) == IF byte = CRC_MODE THEN "crc" ELSE "normal"

\* C2: a block is transmitted for the first time only as the successor of
\* the highest block written so far, and from block 2 on only in reaction
\* to an ACK; EOT is written for the first time only in reaction to an ACK
\* that arrives when the last block N has been written.
C2_SenderOrdering ==
    [][ /\ \A k \in 1..256 :
              (WroteBlock(k)' /\ k > sHighest) =>
                  /\ k = sHighest + 1
                  /\ (k > 1 => sData'[1] = ACK)
        /\ (WroteEot' /\ ~sEotWritten) =>
              /\ NumBlocks >= 1
              /\ sHighest = NumBlocks
              /\ sData'[1] = ACK ]_vars

\* C2 witness: both blocks of a two-block payload and then EOT went out
C2_Witness ==
    /\ NumBlocks = 2
    /\ sHighest = 2
    /\ sData = <<ACK>>
    /\ sWrote = <<<<EOT>>>>

\* C3: a NAK handled after the start makes the sender write exactly its most
\* recent transmission again (EOT if EOT was sent, else the last block with
\* the same sequence number, payload and trailer) and leaves the cursor and
\* the EOT flag as they were, however many NAKs came before.
C3_NakResendsVerbatim ==
    [][ (sListening /\ sData'[1] = NAK /\ sBlockNumber > XMODEM_START_BLOCK) =>
            /\ sWrote' = <<sLastTx>>
            /\ sLastTx' = sLastTx
            /\ sBlockNumber' = sBlockNumber
            /\ sent_eof' = sent_eof
            /\ IF sEotWritten THEN sLastTx = <<EOT>>
               ELSE /\ IsBlockFrame(sLastTx)
                    /\ sLastTx[2] = sBlockNumber - 1
                    /\ sLastTx = sendBlock(sBlockNumber - 1,
                                           sPackagedBuffer[sBlockNumber], sMode) ]_vars

\* C3 witness: block 2 was resent on a NAK
C3_Witness ==
    /\ sData = <<NAK>>
    /\ ~sEotWritten
    /\ sHighest = 2
    /\ sWrote = <<sLastTx>>
    /\ sLastTx[2] = 2

\* the first start byte decided the mode, block 1 went out, and every frame
\* the sender writes carries the trailer of that mode
ModeFixedByStart ==
    sStartByte # 0 =>
        /\ sMode = ModeOfStart(sStartByte)
        /\ sBlockNumber > XMODEM_START_BLOCK
        /\ sHighest >= 1
        /\ \A i \in 1..Len(sWrote) :
              IsBlockFrame(sWrote[i]) =>
                  Len(sWrote[i]) =
                      3 + block_size + TrailerWidth(ModeOfStart(sStartByte))

\* C4 as stated: for every payload, the first start byte received in
\* AwaitingStart decides the mode, the sender then sends block 1 and moves to
\* Sending, every frame carries that mode's trailer and no later
\* CRC_REQUEST or NAK changes the mode.
C4_Original == ModeFixedByStart

\* C4 amended: the same for every non-empty payload.
C4_ModeNegotiation == dataBuffer # <<>> => ModeFixedByStart

\* C4 witness: started by CRC_REQUEST, then a NAK made the sender resend a
\* block with the two-byte trailer
C4_Witness ==
    /\ sStartByte = CRC_MODE
    /\ sData = <<NAK>>
    /\ sWrote # <<>>
    /\ IsBlockFrame(sWrote[1])
    /\ Len(sWrote[1]) = 3 + block_size + 2

\* C5: `stop` is emitted exactly when an attached sender that has sent EOT
\* receives an ACK, the handler is detached in that same step and in no
\* other, `stop` is emitted at most once, and a detached sender writes
\* nothing, emits nothing and changes no state whatever arrives.
C5_SenderCompletion ==
    [][ /\ (Count(sEmitted', "stop") > 0) <=>
              (sListening /\ sEotWritten /\ sData'[1] = ACK)
        /\ (sListening /\ ~sListening') <=> (Count(sEmitted', "stop") > 0)
        /\ sStops' <= 1
        /\ ~sListening =>
              /\ sWrote' = <<>>
              /\ sEmitted' = <<>>
              /\ UNCHANGED <<sPackagedBuffer, sBlockNumber, sent_eof, sMode,
                             sListening, sStops>> ]_vars

\* C5 witness: after `stop` a NAK arrived and nothing was written
C5_Witness ==
    /\ sStops = 1
    /\ ~sListening
    /\ sData = <<NAK>>
    /\ sWrote = <<>>

(***************************************************************************)
(* Properties of the receiver, checked under SpecRecv.  A step with        *)
(* rData' # <<>> is the delivery of the chunk rData'; the timers and the   *)
(* file stream leave rData empty.                                          *)
(***************************************************************************)
ComplementValid(f) == Len(f) >= 3 /\ f[2] + f[3] = 255

PayloadOf(f, mode) == SubSeq(f, 4, Len(f) - TrailerWidth(mode))

TrailerOf(f, mode) == SubSeq(f, Len(f) - TrailerWidth(mode) + 1, Len(f))

RightSize(f, mode) == Len(f) = 3 + block_size + TrailerWidth(mode)

\* an SOH frame is delivered to the attached handler within the error budget
SohWithinBudget ==
    /\ rListening
    /\ rData' # <<>>
    /\ rData'[1] = SOH
    /\ tryCounter + 1 <= XMODEM_MAX_ERRORS

Decodes(f) ==
    /\ ComplementValid(f)
    /\ f[2] = rBlockNumber % 256
    /\ RightSize(f, rMode)

IsPrefix(a, b) == Len(a) <= Len(b) /\ SubSeq(b, 1, Len(a)) = a

\* C6: an SOH frame that decodes (complement valid, the expected number,
\* block-size payload) within the budget makes the receiver write exactly one
\* ACK, append exactly its payload at the index equal to the expected block
\* number, reset the error counter and advance the expected number by one;
\* and before EOT the buffer only grows, its length is the expected block
\* number and the ACKs written are as many as the chunks appended.
C6_Original ==
    [][ /\ (SohWithinBudget /\ Decodes(rData')) =>
              /\ rWrote' = <<<<ACK>>>>
              /\ rPackagedBuffer' =
                    Append(rPackagedBuffer, PayloadOf(rData', rMode))
              /\ Len(rPackagedBuffer) = rBlockNumber
              /\ tryCounter' = 0
              /\ rBlockNumber' = rBlockNumber + 1
        /\ nEots' = 0 =>
              /\ IsPrefix(rPackagedBuffer, rPackagedBuffer')
              /\ Len(rPackagedBuffer') = rBlockNumber'
              /\ rAcks' = Len(rPackagedBuffer') - 1 ]_vars

\* C7: within the budget, an SOH frame whose number and complement do not
\* sum to 0xFF, or one with a valid header and the expected number whose
\* payload is not block-size long, is answered with exactly one NAK; a frame
\* with a valid complement and another number than the expected one is
\* answered with nothing; in all three cases the expected block number and
\* the buffer stay as they were.
C7_RejectionPaths ==
    [][ SohWithinBudget =>
          /\ (~ComplementValid(rData')
                \/ (/\ ComplementValid(rData')
                    /\ rData'[2] = rBlockNumber % 256
                    /\ ~RightSize(rData', rMode))) =>
                /\ rWrote' = <<<<NAK>>>>
                /\ UNCHANGED <<rBlockNumber, rPackagedBuffer>>
          /\ (ComplementValid(rData') /\ rData'[2] # rBlockNumber % 256) =>
                /\ rWrote' = <<>>
                /\ UNCHANGED <<rBlockNumber, rPackagedBuffer>> ]_vars

\* C7 witness: with block 1 accepted, a well-formed frame numbered 1 arrived
\* again and nothing was written in answer
C7_Witness ==
    /\ rListening
    /\ nEots = 0
    /\ rBlockNumber = 2
    /\ tryCounter = 1
    /\ rData \in GoodFrames
    /\ rData[2] = 1
    /\ RightSize(rData, rMode)
    /\ rWrote = <<>>

\* C8: a frame with a valid header, the expected number and the right length
\* whose trailer is not the checksum (checksum mode) or the CRC-16/XMODEM
\* (crc mode) of its payload is never ACKed and never appended.
C8_Original ==
    [][ (/\ SohWithinBudget
         /\ Decodes(rData')
         /\ TrailerOf(rData', rMode) #
               (IF rMode = "crc" THEN CrcTrailer(PayloadOf(rData', rMode))
                ELSE ChecksumTrailer(PayloadOf(rData', rMode)))) =>
            /\ rAcks' = rAcks
            /\ rPackagedBuffer' = rPackagedBuffer ]_vars

\* C9: once XMODEM_MAX_ERRORS + 1 corrupt blocks in a row were fed for the
\* same expected number, the storage writer is never called afterwards,
\* whatever arrives (EOT included).  The code has nothing that would report
\* the failure either.
C9_Original ==
    [][ corruptRun > XMODEM_MAX_ERRORS => writeFileCalls' = writeFileCalls ]_vars

\* started in crc mode, every probe the timers were to send has been sent
\* and no chunk has ever arrived
ProbesExhausted ==
    /\ ~crcTimer.active
    /\ crcTimer.x = crc_tick - 1
    /\ ~nakTimer.active
    /\ nakTimer.x = nak_tick
    /\ tryCounter = 0
    /\ ~transfer_initiated

\* C10: when the probe timers have used up every attempt (all CRC_REQUEST
\* probes, then all NAK probes) without a response,
\* the transport is released: the socket is closed or destroyed and the
\* inbound handler detached.
C10_Original == ProbesExhausted => (~rSocketOpen /\ ~rListening)

(***************************************************************************)
(* EOT trimming, checked under SpecE2E.                                    *)
(***************************************************************************)
\* a chunk without any of its trailing filler bytes
RECURSIVE WithoutTrailingFiller(_)
WithoutTrailingFiller(chunk) ==
    IF chunk = <<>> THEN <<>>
    ELSE IF chunk[Len(chunk)] = FILLER
         THEN WithoutTrailingFiller(SubSeq(chunk, 1, Len(chunk) - 1))
         ELSE chunk

\* C11: the first EOT removes all trailing filler bytes from the final
\* accepted chunk, an all-filler chunk becoming the empty chunk, and leaves
\* every other chunk as it was, before the chunks go to the storage writer.
C11_Original ==
    [][ (/\ rListening
         /\ rData' # <<>>
         /\ rData'[1] = EOT
         /\ nEots = 0
         /\ Len(rPackagedBuffer) > 1) =>
            /\ rPackagedBuffer' =
                  [rPackagedBuffer EXCEPT ![Len(rPackagedBuffer)] =
                                              WithoutTrailingFiller(@)]
            /\ writeFileCalls' = writeFileCalls + 1 ]_vars

(***************************************************************************)
(* More properties of the sender, checked under SpecSend.                  *)
(***************************************************************************)
\* no transition rule of the sender covers this byte in this state
Uncovered(byte, blockNr) ==
    /\ ~(byte = CRC_MODE /\ blockNr = XMODEM_START_BLOCK)
    /\ byte # NAK
    /\ ~(byte = ACK /\ blockNr > XMODEM_START_BLOCK)

\* C14: a byte no transition rule covers (ACK before the start, CRC_REQUEST
\* after it, SOH, EOT, CAN or any other byte in any state) leaves the
\* sender's cursor, EOT flag and mode unchanged, makes it write nothing and
\* emit no `start`, `status` or `stop`.
C14_SenderIgnores ==
    [][ (sListening /\ Uncovered(sData'[1], sBlockNumber)) =>
            /\ sBlockNumber' = sBlockNumber
            /\ sent_eof' = sent_eof
            /\ sMode' = sMode
            /\ sListening'
            /\ sWrote' = <<>>
            /\ Count(sEmitted', "start") = 0
            /\ Count(sEmitted', "status") = 0
            /\ Count(sEmitted', "stop") = 0 ]_vars

\* C14 witness: with block 1 sent and not yet acknowledged a CAN arrived and
\* the sender wrote nothing
C14_Witness ==
    /\ sListening
    /\ sData = <<CAN>>
    /\ sBlockNumber = 2
    /\ sHighest = 1
    /\ ~sent_eof
    /\ sWrote = <<>>
    /\ sEmitted = <<>>

(***************************************************************************)
(* Properties of sendBlock and receiveBlock, checked under SpecCodec.      *)
(***************************************************************************)
\* C15: for both modes, every block number from 1 on (256 and above
\* included) and every block-size payload (a trailer value of 0 or with
\* leading zero hex digits included) the frame sendBlock writes is
\* 3 + block_size + trailer width bytes long, and receiveBlock expecting that
\* number in that mode accepts it and yields exactly the payload.
C15_CodecRoundTrip ==
    /\ codecFrame # <<>> =>
          Len(codecFrame) = 3 + block_size + TrailerWidth(codecCall.mode)
    /\ (codecResult # NoResult /\ codecResult.expected = codecCall.blockNr) =>
          /\ codecResult.accepted
          /\ codecResult.block = codecCall.blockData
          /\ codecResult.wrote = <<<<ACK>>>>

\* C15 witness: block 256 in crc mode with a CRC of one hex digit was
\* accepted
C15_Witness ==
    /\ codecCall.blockNr = 256
    /\ codecCall.mode = "crc"
    /\ crc16xmodem(codecCall.blockData) \in 1..15
    /\ codecResult.expected = 256
    /\ codecResult.accepted

\* C16: for every block number n from 1 on the frame's second byte is
\* n mod 256 and its third (0xFF - n) mod 256, so the two sum to 0xFF; block
\* 256 goes out as 0x00, 0xFF; and a receiver accepts the frame exactly when
\* its sequence byte is the expected number mod 256.
C16_Wraparound ==
    /\ codecFrame # <<>> =>
          /\ codecFrame[2] = codecCall.blockNr % 256
          /\ codecFrame[3] = (255 - codecCall.blockNr) % 256
          /\ codecFrame[2] + codecFrame[3] = 255
          /\ codecCall.blockNr = 256 =>
                (codecFrame[2] = 0 /\ codecFrame[3] = 255)
    /\ codecResult # NoResult =>
          (codecResult.accepted <=>
              codecFrame[2] = codecResult.expected % 256)

\* C16 witness: the frame of block 255 was refused by a receiver expecting
\* block 256
C16_Witness ==
    /\ codecCall.blockNr = 255
    /\ codecResult.expected = 256
    /\ codecFrame[2] = 255
    /\ ~codecResult.accepted

(***************************************************************************)
(* Properties of the probe timers, checked under SpecProbe.                *)
(***************************************************************************)
\* no chunk has arrived at the receiver so far
NoData == tryCounter = 0 /\ ~transfer_initiated

\* C12: started in crc mode and left without data, the receiver writes
\* exactly crc_tick CRC_REQUEST bytes, for every configured crc_tick from 1
\* on, then is in checksum mode and writes NAK probes only, at most nak_tick
\* of them; no CRC_REQUEST follows a NAK probe; started in checksum mode it
\* writes no CRC_REQUEST at all.
C12_Original ==
    NoData =>
        /\ rCrcProbes <= crc_tick
        /\ rNakProbes <= nak_tick
        /\ rNakProbes > 0 => rMode = "normal"
        /\ (rNakProbes > 0 /\ rConfigured = "crc") => rCrcProbes = crc_tick
        /\ (rConfigured = "crc" /\ ~crcTimer.active /\ ~nakTimer.active) =>
              rCrcProbes = crc_tick
        /\ rConfigured = "normal" => rCrcProbes = 0

\* C17: an interval started by setIntervalX with a number of repetitions
\* from 0 on runs its callback at most that many times and is cancelled
\* after the last one; the CRC interval is started with crc_tick - 1
\* repetitions, which is 0 for crc_tick = 1, the NAK interval with nak_tick.
C17_Original ==
    /\ crcTimer.x <= crc_tick - 1
    /\ nakTimer.x <= nak_tick
    /\ (crcTimer.x > 0 /\ crcTimer.x = crc_tick - 1) => ~crcTimer.active
    /\ (nakTimer.x > 0 /\ nakTimer.x = nak_tick) => ~nakTimer.active

(***************************************************************************)
(* More properties of the receiver, checked under SpecRecv.                *)
(***************************************************************************)
\* a block has been accepted
BlockArrived == Len(rPackagedBuffer) > 1

\* the NAK interval has run its last repetition
ProbingRanOut == nakTimer.x = nak_tick

\* C13: once the first valid block has arrived no timer callback writes a
\* probe byte (CRC_REQUEST or NAK) and no timer changes the mode, in every
\* interleaving of timers and chunks; and as long as no valid block has
\* arrived (after a corrupt or out-of-sync SOH frame, say) and the probes
\* have not run out, an interval is still probing.
C13_Original ==
    [][ /\ BlockArrived =>
              /\ rCrcProbes' = rCrcProbes
              /\ rNakProbes' = rNakProbes
              /\ rData' = <<>> => rMode' = rMode
        /\ (~BlockArrived' /\ ~ProbingRanOut') =>
              (crcTimer'.active \/ nakTimer'.active) ]_vars

\* C18: a chunk whose first byte is neither SOH nor EOT changes nothing: the
\* expected block number, the buffer and the count of consecutive errors
\* stay as they were and nothing is written, so that such chunks never make
\* the receiver refuse a later valid block.
C18_Original ==
    [][ (rListening /\ rData' # <<>> /\ rData'[1] \notin {SOH, EOT}) =>
            /\ rBlockNumber' = rBlockNumber
            /\ rPackagedBuffer' = rPackagedBuffer
            /\ tryCounter' = tryCounter
            /\ rWrote' = <<>> ]_vars

\* C20: in one receive() the storage writer is called at most once and the
\* buffer is trimmed at most once, whatever chunks arrive, a second EOT that
\* arrives before the handler is detached included.
C20_Original ==
    [][ /\ writeFileCalls' <= 1
        /\ (rData' # <<>> /\ rData'[1] = EOT /\ nEots >= 1) =>
              rPackagedBuffer' = rPackagedBuffer ]_vars

(***************************************************************************)
(* The two sides together, checked under SpecE2E.                          *)
(***************************************************************************)
\* C19: whenever the receiver processes a data frame, the mode it takes the
\* trailer width from is the mode the sender built the frame in, in every
\* interleaving of the probe timers with the sender's replies.
C19_Original ==
    [][ SohWithinBudget =>
            Len(rData') = 3 + block_size + TrailerWidth(rMode) ]_vars

(***************************************************************************)
(* Completion of a transfer, checked under SpecE2ELive.                    *)
(***************************************************************************)
\* the sender has emitted `stop` and the receiver has called the writer
TransferDone == sStops >= 1 /\ writeFileCalls >= 1

\* nothing is in flight, no interval is running, no stream is about to open
Quiescent ==
    /\ r2s = <<>>
    /\ (s2r = <<>> \/ ~rSocketOpen)
    /\ ~crcTimer.active
    /\ ~nakTimer.active
    /\ openPending = 0

\* C21: with a non-empty payload, a channel that delivers every chunk intact
\* and in order, and fair scheduling of deliveries and timers, the transfer
\* eventually completes: the sender emits `stop` and the receiver hands the
\* chunks to the storage writer; and the two sides never both wait with
\* nothing in flight before that.
C21_Original ==
    dataBuffer # <<>> =>
        /\ <>TransferDone
        /\ [](Quiescent => TransferDone)

====
